---- MODULE Spec2Model ----
(***************************************************************************)
(* A model of ophyd/controls/areadetector/base.py: the Signal / SignalRW   *)
(* descriptors with the SignalMeta registry and the Base / SettableBase    *)
(* operations, and the ADSignal / ADSignalGroup lazy properties of ADBase. *)
(*                                                                         *)
(* Python values are records tagged with their type, dictionaries are      *)
(* functions whose DOMAIN is the key set, and dictionary keys carry their  *)
(* Python type (a str key and a tuple key never compare equal).            *)
(*                                                                         *)
(* The Channel Client (epics.PV, ophyd's EpicsSignal and SignalGroup) is   *)
(* external.  A PV holds the symbolic value PvValue(name); which PVs       *)
(* report "not connected" is sampled by the caller of each operation.      *)
(*                                                                         *)
(* Schema classes share no state with one another, so a behaviour defines  *)
(* one schema class and then works with instances of it.                   *)
(***************************************************************************)
EXTENDS Integers, Sequences, FiniteSets, TLC

VARIABLES
    klass,     \* the schema class object built at class definition (or NoClass)
    pvs,       \* klass._pvs, the dictionary SignalMeta puts on the class
    objs,      \* the constructed instances, in order of construction
    made,      \* how many channel objects were constructed per (cache, key)
    threads,   \* position of each thread inside Signal.__get__ / check_exists
    last       \* the last call and what it returned or raised

vars == <<klass, pvs, objs, made, threads, last>>

----------------------------------------------------------------------------
(* Bounds of the model *)

MaxInst == 2      \* instances constructed in one behaviour
MaxDown == 1      \* PVs that report "not connected" during one call
MaxThreads == 2   \* threads that access a field concurrently
MaxTemplate == 3  \* pieces of a template
MaxClasses == 2   \* classes on the method resolution order of a lookup
MaxFiles == 2     \* entries of one _html_docs list

----------------------------------------------------------------------------
(* Python values *)

PyNone == [type |-> "NoneType"]
NoClass == [type |-> "NoClass"]

EmptyDict == <<>>

Put(d, k, v) == [x \in (DOMAIN d) \cup {k} |-> IF x = k THEN v ELSE d[x]]

\* A dictionary key of type str, and one of type tuple (of str).
StrKey(s) == <<"str", s>>

TupleKey(items) == <<"tuple">> \o items

Str(s) == [type |-> "str", s |-> s]

Range(s) == {s[n] : n \in DOMAIN s}

NoDup(s) == \A m, n \in DOMAIN s : m # n => s[m] # s[n]

Raise(type, msg) == [type |-> type, msg |-> msg]

----------------------------------------------------------------------------
(* Name templates and str.format *)

BN == "{base_name}"

RECURSIVE Format(_, _)
Format(pv_template, base_name) ==
    IF pv_template = <<>> THEN ""
    ELSE (IF Head(pv_template) = BN THEN base_name ELSE Head(pv_template))
             \o Format(Tail(pv_template), base_name)

----------------------------------------------------------------------------
(* The Channel Client: epics.PV *)

\* The value the Channel Client currently holds for a PV.
PvValue(pvname) == [type |-> "value", of |-> pvname]

\* epics.PV(pv_name).connected, given the PVs that report "not connected".
PvConnected(pvname, down) == pvname \notin down

\* The object epics.PV.put returns for a write that was issued.
PvPut(pvname, val) == [type |-> "put", pv |-> pvname, val |-> val]

----------------------------------------------------------------------------
(* EpicsSignalLite, EpicsSignalLiteRW and raise_if_disconnected *)

\* Object identity: the n-th object constructed for this key of this cache.
Oid(owner, key, n) == <<owner, key, n>>

Count(m, owner, key) == IF <<owner, key>> \in DOMAIN m THEN m[<<owner, key>>] ELSE 0

EpicsSignalLite(pv_name, oid) ==
    [type |-> "EpicsSignalLite", pv |-> pv_name, oid |-> oid]

EpicsSignalLiteRW(pv_name, oid) ==
    [type |-> "EpicsSignalLiteRW", pv |-> pv_name,
     readback_pv |-> pv_name \o ".RBV", oid |-> oid]

connected(sig, down) ==
    IF sig.type = "EpicsSignalLiteRW"
    THEN PvConnected(sig.pv, down) /\ PvConnected(sig.readback_pv, down)
    ELSE PvConnected(sig.pv, down)

raise_if_disconnected(sig, down, result) ==
    IF connected(sig, down) THEN result
    ELSE Raise("DisconnectedError", sig.pv \o " is not connected")

EpicsSignalLite_get(sig, down) ==
    raise_if_disconnected(sig, down,
        IF sig.type = "EpicsSignalLiteRW" THEN PvValue(sig.readback_pv)
        ELSE PvValue(sig.pv))

\* Only EpicsSignalLiteRW defines put.
EpicsSignalLiteRW_put(sig, val, down) ==
    IF sig.type # "EpicsSignalLiteRW"
    THEN Raise("AttributeError", "'" \o sig.type \o "' object has no attribute 'put'")
    ELSE raise_if_disconnected(sig, down, PvPut(sig.pv, val))

IsError(v) ==
    v.type \in {"DisconnectedError", "AttributeError", "TypeError", "ValueError"}

----------------------------------------------------------------------------
(* Signal and SignalRW descriptors *)

Signal__init__(type, pv_template) ==
    IF BN \notin Range(pv_template)
    THEN Raise("ValueError", "pv_template must contain '{base_name}'")
    ELSE [type |-> type, pv_template |-> pv_template]

IsSignal(v) == v.type \in {"Signal", "SignalRW"}

IsSignalRW(v) == v.type = "SignalRW"

\* Signal._class and SignalRW._class
Signal_class(desc, pv_name, oid) ==
    IF desc.type = "SignalRW" THEN EpicsSignalLiteRW(pv_name, oid)
    ELSE EpicsSignalLite(pv_name, oid)

\* Signal.__get__(instance, owner) on the heap h = [pvs, objs, made]; i = 0
\* stands for access on the class (instance is None).
\* A __get__ that consults no cache: every access constructs a channel.
Signal__get__Fresh(desc, i, h) ==
    IF i = 0 THEN [h |-> h, ret |-> PyNone]
    ELSE LET pv_name == Format(desc.pv_template, h.objs[i].dict.base_name)
             key == StrKey(pv_name)
             n == Count(h.made, 0, key) + 1
             sig == Signal_class(desc, pv_name, Oid(0, key, n))
         IN [h |-> [h EXCEPT !.pvs = Put(h.pvs, key, sig),
                             !.made = Put(h.made, <<0, key>>, n)],
             ret |-> sig]

Signal__get__(desc, i, h) ==
    IF i = 0 THEN [h |-> h, ret |-> PyNone]
    ELSE
      LET pv_name == Format(desc.pv_template, h.objs[i].dict.base_name)
          key == StrKey(pv_name)
      IN IF key \notin DOMAIN h.pvs
         THEN LET n == Count(h.made, 0, key) + 1
                  sig == Signal_class(desc, pv_name, Oid(0, key, n))
                  h2 == [h EXCEPT !.pvs = Put(h.pvs, key, sig),
                                  !.made = Put(h.made, <<0, key>>, n)]
              IN [h |-> h2, ret |-> h2.pvs[key]]
         ELSE [h |-> h, ret |-> h.pvs[key]]

----------------------------------------------------------------------------
(* ophyd.controls.signal: EpicsSignal and SignalGroup, as ADSignal uses them *)

\* EpicsSignal(read_pv, write_pv=..., name=..., **kwargs)
oesig(read_pv, write_pv, oid) ==
    [type |-> "EpicsSignal", read_pv |-> read_pv, write_pv |-> write_pv, oid |-> oid]

\* EpicsSignal.pvname
pvname(signal) == signal.read_pv

\* SignalGroup(**kwargs) followed by add_signal for every member
osiggrp(signals, oid) == [type |-> "SignalGroup", signals |-> signals, oid |-> oid]

----------------------------------------------------------------------------
(* ADSignal and ADSignalGroup *)

ADSignal__init__(pv, has_rbv) == [type |-> "ADSignal", pv |-> pv, has_rbv |-> has_rbv]

ToStr(n) ==
    CASE n = 0 -> "0" [] n = 1 -> "1" [] n = 2 -> "2" [] n = 3 -> "3" [] n = 4 -> "4"
      [] n = 5 -> "5" [] n = 6 -> "6" [] n = 7 -> "7" [] n = 8 -> "8" [] n = 9 -> "9"

CH == "{self.channel}"

\* self.pv.format(self=obj)
RECURSIVE ADFormat(_, _)
ADFormat(pv, d) ==
    IF pv = <<>> THEN ""
    ELSE (IF Head(pv) = CH THEN ToStr(d.channel) ELSE Head(pv)) \o ADFormat(Tail(pv), d)

\* The EpicsSignal that check_exists builds on a cache miss.
ADSignal_construct(desc, d, pv, oid) ==
    LET read_ == (d._prefix \o pv) \o (IF desc.has_rbv THEN "_RBV" ELSE "")
        write == IF desc.has_rbv THEN Str(d._prefix \o pv) ELSE PyNone
    IN oesig(read_, write, oid)

\* A check_exists that builds an EpicsSignal on every access, and hands out
\* the cached one when there is one.
ADSignal_check_exists_Eager(desc, i, h) ==
    IF i = 0 THEN [h |-> h, ret |-> desc]
    ELSE
      LET d == h.objs[i].dict
          pv == ADFormat(desc.pv, d)
          key == StrKey(pv)
          n == Count(h.made, i, key) + 1
          signal == ADSignal_construct(desc, d, pv, Oid(i, key, n))
      IN [h |-> [h EXCEPT !.objs[i].dict._ad_signals =
                              IF key \in DOMAIN @ THEN @ ELSE Put(@, key, signal),
                          !.made = Put(h.made, <<i, key>>, n)],
          ret |-> IF key \in DOMAIN d._ad_signals THEN d._ad_signals[key] ELSE signal]

\* A check_exists whose key is the template of the field as declared.
ADSignal_check_exists_ByField(desc, i, h) ==
    IF i = 0 THEN [h |-> h, ret |-> desc]
    ELSE
      LET d == h.objs[i].dict
          pv == ADFormat(desc.pv, d)
          key == <<"str", desc.pv>>
      IN IF key \in DOMAIN d._ad_signals
         THEN [h |-> h, ret |-> d._ad_signals[key]]
         ELSE LET n == Count(h.made, i, key) + 1
                  signal == ADSignal_construct(desc, d, pv, Oid(i, key, n))
                  h2 == [h EXCEPT !.objs[i].dict._ad_signals = Put(@, key, signal),
                                  !.made = Put(h.made, <<i, key>>, n)]
              IN [h |-> h2, ret |-> h2.objs[i].dict._ad_signals[key]]

\* ADSignal.check_exists(obj); i = 0 stands for access on the class.
ADSignal_check_exists(desc, i, h) ==
    IF i = 0 THEN [h |-> h, ret |-> desc]
    ELSE
      LET d == h.objs[i].dict
          pv == ADFormat(desc.pv, d)
          key == StrKey(pv)
      IN IF key \in DOMAIN d._ad_signals
         THEN [h |-> h, ret |-> d._ad_signals[key]]
         ELSE LET n == Count(h.made, i, key) + 1
                  signal == ADSignal_construct(desc, d, pv, Oid(i, key, n))
                  h2 == [h EXCEPT !.objs[i].dict._ad_signals = Put(@, key, signal),
                                  !.made = Put(h.made, <<i, key>>, n)]
              IN [h |-> h2, ret |-> h2.objs[i].dict._ad_signals[key]]

\* One more member of the tuple: g is what prop.__get__(self) gave.
AddMember(signals, g) == [h |-> g.h, ret |-> Append(signals.ret, g.ret)]

\* signals = tuple(prop.__get__(self) for prop in props)
RECURSIVE GroupMembers(_, _, _)
GroupMembers(props, i, signals) ==
    IF props = <<>> THEN signals
    ELSE GroupMembers(Tail(props), i,
                      AddMember(signals, ADSignal_check_exists(Head(props), i, signals.h)))

\* A group lookup that, on a miss, keeps the group alone in the cache.
ADSignalGroup_lookup_Evict(i, m) ==
    LET key == TupleKey([n \in DOMAIN m.ret |-> pvname(m.ret[n])])
        d == m.h.objs[i].dict
    IN IF key \in DOMAIN d._ad_signals
       THEN [h |-> m.h, ret |-> d._ad_signals[key]]
       ELSE LET n == Count(m.h.made, i, key) + 1
                sg == osiggrp(m.ret, Oid(i, key, n))
            IN [h |-> [m.h EXCEPT !.objs[i].dict._ad_signals = Put(EmptyDict, key, sg),
                                  !.made = Put(m.h.made, <<i, key>>, n)],
                ret |-> sg]

\* A group lookup whose key is the number of members.
ADSignalGroup_lookup_ByArity(i, m) ==
    LET key == TupleKey([n \in DOMAIN m.ret |-> "member"])
        d == m.h.objs[i].dict
    IN IF key \in DOMAIN d._ad_signals
       THEN [h |-> m.h, ret |-> d._ad_signals[key]]
       ELSE LET n == Count(m.h.made, i, key) + 1
                sg == osiggrp(m.ret, Oid(i, key, n))
                h2 == [m.h EXCEPT !.objs[i].dict._ad_signals = Put(@, key, sg),
                                  !.made = Put(m.h.made, <<i, key>>, n)]
            IN [h |-> h2, ret |-> h2.objs[i].dict._ad_signals[key]]

\* The body of check_exists once the member signals m are at hand.
ADSignalGroup_lookup(i, m) ==
    LET key == TupleKey([n \in DOMAIN m.ret |-> pvname(m.ret[n])])
        d == m.h.objs[i].dict
    IN IF key \in DOMAIN d._ad_signals
       THEN [h |-> m.h, ret |-> d._ad_signals[key]]
       ELSE LET n == Count(m.h.made, i, key) + 1
                sg == osiggrp(m.ret, Oid(i, key, n))
                h2 == [m.h EXCEPT !.objs[i].dict._ad_signals = Put(@, key, sg),
                                  !.made = Put(m.h.made, <<i, key>>, n)]
            IN [h |-> h2, ret |-> h2.objs[i].dict._ad_signals[key]]

\* check_exists(self) of ADSignalGroup(*props)
ADSignalGroup_check_exists(props, i, h) ==
    ADSignalGroup_lookup(i, GroupMembers(props, i, [h |-> h, ret |-> <<>>]))

\* ADSignalGroup(*props, **kwargs): the property it returns.  On the class
\* (i = 0) a property returns itself.
ADSignalGroup(props) == [type |-> "property", props |-> props]

\* signal.value = value, sg.value = value: the client object g.ret takes
\* the value; what it does with it is the client's business.
SetValue(g, value) ==
    [h |-> g.h, ret |-> PyNone, assigned |-> <<[target |-> g.ret, value |-> value]>>]

\* ADSignal.__set__(obj, value)
ADSignal__set__(desc, i, value, h) == SetValue(ADSignal_check_exists(desc, i, h), value)

\* fset(self, value) of ADSignalGroup(*props)
fset(props, i, value, h) == SetValue(ADSignalGroup_check_exists(props, i, h), value)

----------------------------------------------------------------------------
(* Schema classes: their bodies, and the registry SignalMeta builds *)

Function(name) == [type |-> "function", name |-> name]

List(items) == [type |-> "list", items |-> items]

Dict(items) == [type |-> "dict", items |-> items]

PyInt(n) == [type |-> "int", val |-> n]

ClassMethod(name) == [type |-> "classmethod", name |-> name]

\* A property without a setter (@property)
Property(fget) == [type |-> "property", fget |-> fget]

\* The class statements of the model, as the (name, value) pairs of the body.
\* Dev is a settable schema with a writable field a and a read-only field r;
\* Stage has writable fields a, b with the read-only r declared between
\* them; Detector is a schema after the one of the ADSignal docstring, its
\* field enable with a readback PV, and with a group of the two fields.
\* Motor is the class of the module.  Twin declares a writable and a
\* read-only field with one template, and SubDev inherits the fields of Dev.
ClassBody(c) ==
    CASE c = "Base" ->
           << <<"read", Function("Base.read")>>,
              <<"describe", Function("Base.describe")>>,
              <<"stop", Function("Base.stop")>>,
              <<"trigger", Function("Base.trigger")>> >>
      [] c = "SettableBase" ->
           << <<"set", Function("SettableBase.set")>> >>
      [] c = "Dev" ->
           << <<"a", Signal__init__("SignalRW", <<BN, ".A">>)>>,
              <<"r", Signal__init__("Signal", <<BN, ".R">>)>> >>
      [] c = "Stage" ->
           << <<"a", Signal__init__("SignalRW", <<BN, ".A">>)>>,
              <<"r", Signal__init__("Signal", <<BN, ".R">>)>>,
              <<"b", Signal__init__("SignalRW", <<BN, ".B">>)>> >>
      [] c = "Motor" ->
           << <<"val", Signal__init__("SignalRW", <<BN, ".VAL">>)>>,
              <<"val", Signal__init__("SignalRW", <<BN, ".VAL">>)>>,
              <<"egu", Signal__init__("SignalRW", <<BN, ".EGU">>)>>,
              <<"movn", Signal__init__("SignalRW", <<BN, ".MOVN">>)>>,
              <<"dmov", Signal__init__("SignalRW", <<BN, ".DMOV">>)>>,
              <<"stop", Signal__init__("SignalRW", <<BN, ".STOP">>)>> >>
      [] c = "Twin" ->
           << <<"w", Signal__init__("SignalRW", <<BN, ".V">>)>>,
              <<"v", Signal__init__("Signal", <<BN, ".V">>)>> >>
      [] c = "SubDev" ->
           << <<"c", Signal__init__("Signal", <<BN, ".C">>)>> >>
      [] c = "ADBase" ->
           << <<"_html_docs", List(<<"areaDetectorDoc.html">>)>>,
              <<"_all_adsignals", ClassMethod("ADBase._all_adsignals")>>,
              <<"_update_docstrings", ClassMethod("ADBase._update_docstrings")>>,
              <<"find_signal", Function("ADBase.find_signal")>>,
              <<"signals", Property("ADBase.signals")>>,
              <<"read", Function("ADBase.read")>>,
              <<"report", Property("ADBase.report")>> >>
      [] c = "Detector" ->
           << <<"signal", ADSignal__init__(<<"Ch", CH>>, FALSE)>>,
              <<"enable", ADSignal__init__(<<"enable">>, TRUE)>>,
              <<"group", ADSignalGroup(<<ADSignal__init__(<<"Ch", CH>>, FALSE),
                                         ADSignal__init__(<<"enable">>, TRUE)>>)>> >>

Bases(c) ==
    CASE c = "Base" -> <<>>
      [] c = "SettableBase" -> <<"Base">>
      [] c = "Dev" -> <<"SettableBase">>
      [] c = "Stage" -> <<"SettableBase">>
      [] c = "Motor" -> <<"Base">>
      [] c = "Twin" -> <<"SettableBase">>
      [] c = "SubDev" -> <<"Dev">>
      [] c = "ADBase" -> <<>>
      [] c = "Detector" -> <<"ADBase">>

\* The classes whose metaclass is SignalMeta.
HasSignalMeta(c) == c \in {"Base", "SettableBase", "Dev", "Stage", "Motor", "Twin", "SubDev"}


\* The namespace a class body leaves: a name bound twice keeps its first
\* position and its last value.
RECURSIVE Keys(_)
Keys(body) ==
    IF body = <<>> THEN <<>>
    ELSE LET front == Keys(SubSeq(body, 1, Len(body) - 1))
             k == body[Len(body)][1]
         IN IF k \in Range(front) THEN front ELSE Append(front, k)

Value(body, k) ==
    LET at == {n \in DOMAIN body : body[n][1] = k}
    IN body[CHOOSE n \in at : \A m \in at : m <= n][2]

ClsDict(c) == [k \in Range(Keys(ClassBody(c))) |-> Value(ClassBody(c), k)]

ClassNames == {"Base", "SettableBase", "Dev", "Stage", "Motor", "Twin", "SubDev",
               "ADBase", "Detector"}

\* The dictionary of every class of the model.
ClassDicts == [c \in ClassNames |-> ClsDict(c)]

\* The method resolution order: the class, then its bases.
RECURSIVE Mro(_)
Mro(c) == <<c>> \o (IF Bases(c) = <<>> THEN <<>> ELSE Mro(Bases(c)[1]))

IsSignalName(c, k) == IsSignal(ClassDicts[c][k])

IsWritableName(c, k) == IsSignalRW(ClassDicts[c][k])

\* SignalMeta.__new__(cls, name, bases, clsdict); _pvs is the variable pvs.
SignalMeta__new__(name) ==
    LET clsdict == ClassDicts[name]
        signal_names == SelectSeq(Keys(ClassBody(name)), LAMBDA k : IsSignalName(name, k))
        writable_signals == SelectSeq(signal_names, LAMBDA k : IsWritableName(name, k))
    IN [type |-> "class",
        name |-> name,
        mro |-> Mro(name),
        _templates |-> [k \in Range(signal_names) |-> clsdict[k].pv_template],
        signals |-> [k \in Range(signal_names) |-> clsdict[k]],
        signal_names |-> signal_names,
        _default_sig_for_set |-> writable_signals]

\* A class statement under the default metaclass (ADBase and its subclasses).
PlainClass(name) == [type |-> "class", name |-> name, mro |-> Mro(name)]

\* Lookup of a name along the method resolution order of the class.
RECURSIVE MroLookup(_, _)
MroLookup(mro, name) ==
    IF mro = <<>> THEN Raise("AttributeError", name)
    ELSE IF name \in DOMAIN ClassDicts[Head(mro)] THEN ClassDicts[Head(mro)][name]
    ELSE MroLookup(Tail(mro), name)

\* The AttributeError of a lookup that finds nothing.
NoAttribute(cls, i, name) ==
    Raise("AttributeError",
          (IF i = 0 THEN "type object '" \o cls.name \o "'"
           ELSE "'" \o cls.name \o "' object")
             \o " has no attribute '" \o name \o "'")

RECURSIVE getattr(_, _, _, _)

\* The instance dictionary keeps the context attributes (base_name, _prefix,
\* channel) as the bare string or number; this is the Python value.
PyValue(name, v) ==
    IF name = "channel" THEN PyInt(v)
    ELSE IF name \in {"base_name", "_prefix"} THEN Str(v)
    ELSE v

\* The public names of the detector classes and their instances, in the
\* order sorted() gives them.
Alphabetical == <<"alias", "channel", "enable", "find_signal", "group", "name",
                 "read", "report", "signal", "signals">>

\* sorted(dir(self)) without the names that start with an underscore
sorted_dir(cls, i, h) ==
    SelectSeq(Alphabetical,
              LAMBDA attr : attr \in DOMAIN h.objs[i].dict
                              \cup UNION {DOMAIN ClassDicts[c] : c \in Range(cls.mro)})

\* ADBase.signals: attrs, then the dictionary of the values that are
\* signals or groups.  SignalsItem is one safe_getattr, g being what
\* getattr(self, attr) gave; an attribute whose lookup raises counts as None.
RECURSIVE SignalsLoop(_, _, _, _, _)
SignalsItem(cls, i, attrs, g, acc) ==
    SignalsLoop(cls, i, Tail(attrs), g.h,
                IF g.ret.type \in {"EpicsSignal", "SignalGroup"}
                THEN Put(acc, Head(attrs), g.ret) ELSE acc)

SignalsLoop(cls, i, attrs, h, acc) ==
    IF attrs = <<>> THEN [h |-> h, ret |-> Dict(acc)]
    ELSE IF Head(attrs) = "signals" THEN SignalsLoop(cls, i, Tail(attrs), h, acc)
    ELSE SignalsItem(cls, i, attrs, getattr(cls, i, Head(attrs), h), acc)

\* self.__sig_dict = dict(...); return self.__sig_dict
StoreSigDict(i, r) ==
    [h |-> [r.h EXCEPT !.objs[i].dict._ADBase__sig_dict = r.ret], ret |-> r.ret]

\* The property ADBase.signals
ADBase_signals(cls, i, h) ==
    IF h.objs[i].dict._ADBase__sig_dict # PyNone
    THEN [h |-> h, ret |-> h.objs[i].dict._ADBase__sig_dict]
    ELSE StoreSigDict(i, SignalsLoop(cls, i, sorted_dir(cls, i, h), h, EmptyDict))

\* The property ADBase.report
ADBase_report(i, h) ==
    [h |-> h, ret |-> Dict(Put(EmptyDict, h.objs[i].dict.name, PyInt(0)))]

\* getattr(instance, name), or getattr(cls, name) when i = 0.  A data
\* descriptor of the class (ADSignal, property) comes first, then the
\* instance dictionary, then a non-data descriptor (Signal defines __get__
\* only) or a plain class attribute.
getattr(cls, i, name, h) ==
    LET attr == MroLookup(cls.mro, name)
    IN IF ~IsError(attr) /\ attr.type = "ADSignal" THEN ADSignal_check_exists(attr, i, h)
       ELSE IF ~IsError(attr) /\ attr.type = "property"
       THEN (IF i = 0 THEN [h |-> h, ret |-> attr]
             ELSE IF "props" \in DOMAIN attr THEN ADSignalGroup_check_exists(attr.props, i, h)
             ELSE IF attr.fget = "ADBase.signals" THEN ADBase_signals(cls, i, h)
             ELSE ADBase_report(i, h))
       ELSE IF i # 0 /\ name \in DOMAIN h.objs[i].dict
       THEN [h |-> h, ret |-> PyValue(name, h.objs[i].dict[name])]
       ELSE IF IsError(attr) THEN [h |-> h, ret |-> NoAttribute(cls, i, name)]
       ELSE IF IsSignal(attr) THEN Signal__get__(attr, i, h)
       ELSE [h |-> h, ret |-> attr]

\* setattr(instance, name, value).  A descriptor of the class that defines
\* __set__ (ADSignal, the property of a group) takes the value; Signal and
\* SignalRW define none, so for their fields, as for any other name, the
\* value is bound in the instance dictionary.
setattr(cls, i, name, value, h) ==
    LET attr == MroLookup(cls.mro, name)
    IN IF ~IsError(attr) /\ attr.type = "ADSignal" THEN ADSignal__set__(attr, i, value, h)
       ELSE IF ~IsError(attr) /\ attr.type = "property"
       THEN (IF "props" \in DOMAIN attr THEN fset(attr.props, i, value, h)
             ELSE [h |-> h,
                   ret |-> Raise("AttributeError",
                                 ((("property '" \o name) \o "' of '") \o cls.name)
                                    \o "' object has no setter"),
                   assigned |-> <<>>])
       ELSE [h |-> [h EXCEPT !.objs[i].dict = Put(@, name, value)],
             ret |-> PyNone, assigned |-> <<>>]

----------------------------------------------------------------------------
(* Base and SettableBase *)

\* Base.__init__(self, base_name, read_fields=None): the instance dictionary.
Base__init__(cls, base_name, read_fields) ==
    IF read_fields = PyNone
    THEN [base_name |-> base_name, read_fields |-> List(cls.signal_names)]
    ELSE [base_name |-> base_name]

IsChannel(v) == v.type \in {"EpicsSignalLite", "EpicsSignalLiteRW"}

\* Base.read: the dictionary comprehension, one name at a time.  ReadItem
\* is one iteration, g being what getattr(self, name) gave.
RECURSIVE ReadLoop(_, _, _, _, _, _)
ReadItem(cls, i, names, g, down, acc) ==
    LET v == IF IsChannel(g.ret) THEN EpicsSignalLite_get(g.ret, down)
             ELSE Raise("AttributeError", ("'" \o g.ret.type) \o "' object has no attribute 'get'")
    IN IF IsError(g.ret) THEN [h |-> g.h, ret |-> g.ret]
       ELSE IF IsError(v) THEN [h |-> g.h, ret |-> v]
       ELSE ReadLoop(cls, i, Tail(names), g.h, down, Put(acc, Head(names), v))

ReadLoop(cls, i, names, h, down, acc) ==
    IF names = <<>> THEN [h |-> h, ret |-> [type |-> "dict", items |-> acc]]
    ELSE ReadItem(cls, i, names, getattr(cls, i, Head(names), h), down, acc)

\* The body of read once self.read_fields has been looked up as rf.
ReadFields(cls, i, h, down, rf) ==
    IF IsError(rf.ret) THEN [h |-> h, ret |-> rf.ret]
    ELSE ReadLoop(cls, i, rf.ret.items, h, down, EmptyDict)

Base_read(cls, i, h, down) ==
    ReadFields(cls, i, h, down, getattr(cls, i, "read_fields", h))

\* Base.describe, in the same way.
RECURSIVE DescribeLoop(_, _, _, _, _)
DescribeItem(cls, i, names, g, acc) ==
    IF IsError(g.ret) THEN [h |-> g.h, ret |-> g.ret]
    ELSE IF ~IsChannel(g.ret)
    THEN [h |-> g.h,
          ret |-> Raise("AttributeError", ("'" \o g.ret.type) \o "' object has no attribute 'pv'")]
    ELSE DescribeLoop(cls, i, Tail(names), g.h,
                      Put(acc, Head(names), [source |-> g.ret.pv]))

DescribeLoop(cls, i, names, h, acc) ==
    IF names = <<>> THEN [h |-> h, ret |-> [type |-> "dict", items |-> acc]]
    ELSE DescribeItem(cls, i, names, getattr(cls, i, Head(names), h), acc)

DescribeFields(cls, i, h, rf) ==
    IF IsError(rf.ret) THEN [h |-> h, ret |-> rf.ret]
    ELSE DescribeLoop(cls, i, rf.ret.items, h, EmptyDict)

Base_describe(cls, i, h) ==
    DescribeFields(cls, i, h, getattr(cls, i, "read_fields", h))

\* Base.stop(self) and Base.trigger(self): pass
Base_stop(i, h) == [h |-> h, ret |-> PyNone]

Base_trigger(i, h) == [h |-> h, ret |-> PyNone]

\* instance.name(): g is what getattr(self, name) gave, and it is called
\* without arguments.
CallAttribute(i, g) ==
    IF IsError(g.ret) THEN g
    ELSE IF g.ret = Function("Base.stop") THEN Base_stop(i, g.h)
    ELSE IF g.ret = Function("Base.trigger") THEN Base_trigger(i, g.h)
    ELSE [h |-> g.h,
          ret |-> Raise("TypeError", "'" \o g.ret.type \o "' object is not callable")]

\* inspect.Signature.bind for positional-or-keyword parameters without
\* defaults; kwargs is the sequence of (name, value) keywords as written.
KwNames(kwargs) == {kwargs[n][1] : n \in DOMAIN kwargs}

KwValue(kwargs, name) == kwargs[CHOOSE n \in DOMAIN kwargs : kwargs[n][1] = name][2]

Least(S) == CHOOSE n \in S : \A m \in S : n <= m

\* A bind whose arguments come in the order the caller wrote them.
Signature_bind_AsWritten(params, args, kwargs) ==
    LET np == Len(params)
        na == Len(args)
    IN IF \/ na > np
          \/ \E n \in 1..na : params[n] \in KwNames(kwargs)
          \/ \E n \in (na + 1)..np : params[n] \notin KwNames(kwargs)
          \/ \E n \in DOMAIN kwargs : kwargs[n][1] \notin Range(params)
       THEN Raise("TypeError", "bind")
       ELSE [type |-> "BoundArguments",
             arguments |-> [n \in 1..na |-> <<params[n], args[n]>>] \o kwargs]

Signature_bind(params, args, kwargs) ==
    LET np == Len(params)
        na == Len(args)
        twice == {n \in 1..na : n <= np /\ params[n] \in KwNames(kwargs)}
        missing == {n \in (na + 1)..np : params[n] \notin KwNames(kwargs)}
        unknown == {n \in DOMAIN kwargs : kwargs[n][1] \notin Range(params)}
    IN IF twice # {}
       THEN Raise("TypeError", "multiple values for argument '" \o params[Least(twice)] \o "'")
       ELSE IF na > np THEN Raise("TypeError", "too many positional arguments")
       ELSE IF missing # {}
       THEN Raise("TypeError", "missing a required argument: '" \o params[Least(missing)] \o "'")
       ELSE IF unknown # {}
       THEN Raise("TypeError", "got an unexpected keyword argument '"
                                   \o kwargs[Least(unknown)][1] \o "'")
       ELSE [type |-> "BoundArguments",
             arguments |-> [n \in 1..np |->
                 <<params[n], IF n <= na THEN args[n] ELSE KwValue(kwargs, params[n])>>]]

\* SettableBase.set: the loop over bound.arguments; puts is what was issued.
RECURSIVE SetLoop(_, _, _, _, _, _)
\* An iteration that takes back the writes issued so far when its own fails.
SetItem_Rollback(cls, i, arguments, g, down, status_objs) ==
    LET p == IF IsChannel(g.ret)
             THEN EpicsSignalLiteRW_put(g.ret, Head(arguments)[2], down)
             ELSE Raise("AttributeError", ("'" \o g.ret.type) \o "' object has no attribute 'put'")
    IN IF IsError(g.ret) THEN [h |-> g.h, ret |-> g.ret, puts |-> <<>>]
       ELSE IF IsError(p) THEN [h |-> g.h, ret |-> p, puts |-> <<>>]
       ELSE SetLoop(cls, i, Tail(arguments), g.h, down, Append(status_objs, p))

SetItem(cls, i, arguments, g, down, status_objs) ==
    LET p == IF IsChannel(g.ret)
             THEN EpicsSignalLiteRW_put(g.ret, Head(arguments)[2], down)
             ELSE Raise("AttributeError", ("'" \o g.ret.type) \o "' object has no attribute 'put'")
    IN IF IsError(g.ret) THEN [h |-> g.h, ret |-> g.ret, puts |-> status_objs]
       ELSE IF IsError(p) THEN [h |-> g.h, ret |-> p, puts |-> status_objs]
       ELSE SetLoop(cls, i, Tail(arguments), g.h, down, Append(status_objs, p))

SetLoop(cls, i, arguments, h, down, status_objs) ==
    IF arguments = <<>>
    THEN [h |-> h, ret |-> List(status_objs), puts |-> status_objs]
    ELSE SetItem(cls, i, arguments, getattr(cls, i, Head(arguments)[1], h),
                 down, status_objs)

\* The body of set once the arguments are bound (or the binding has raised).
SetBound(cls, i, h, bound, down) ==
    IF IsError(bound) THEN [h |-> h, ret |-> bound, puts |-> <<>>]
    ELSE SetLoop(cls, i, bound.arguments, h, down, <<>>)

\* A set that writes its positional arguments before it binds the call.
SettableBase_set_WriteFirst(cls, i, h, args, kwargs, down) ==
    SetLoop(cls, i,
            [n \in {m \in DOMAIN args : m <= Len(cls._default_sig_for_set)} |->
                <<cls._default_sig_for_set[n], args[n]>>],
            h, down, <<>>)

SettableBase_set(cls, i, h, args, kwargs, down) ==
    SetBound(cls, i, h, Signature_bind(cls._default_sig_for_set, args, kwargs), down)

----------------------------------------------------------------------------
(* lookup_doc *)

\* A PV suffix is a sequence of pieces, the readback suffix being a piece
\* of its own: 'Gain_RBV' is <<"Gain", "_RBV">>.
RBV == "_RBV"

RECURSIVE Join(_)
Join(pieces) == IF pieces = <<>> THEN "" ELSE Head(pieces) \o Join(Tail(pieces))

\* pv.endswith('_RBV') and pv[:-4]
endswith_RBV(pv) == pv # <<>> /\ pv[Len(pv)] = RBV

StripRBV(pv) == SubSeq(pv, 1, Len(pv) - 1)

KeyError == [type |-> "KeyError"]

\* inspect.getmro(cls_) for a chain of classes, own[k] being the _html_docs
\* list the body of the k-th class binds (None when it binds none): the
\* attribute class_._html_docs is the first list bound at or after class_.
RECURSIVE getmro(_)
getmro(own) ==
    IF own = <<>> THEN <<>>
    ELSE LET rest == getmro(Tail(own))
         IN << IF Head(own) # PyNone THEN [_html_docs |-> Head(own).items]
               ELSE IF rest # <<>> /\ "_html_docs" \in DOMAIN rest[1]
               THEN [_html_docs |-> rest[1]._html_docs]
               ELSE [type |-> "class"] >> \o rest

\* The two tries in one table, the readback form before the exact name.
lookup_doc_table_StrippedFirst(doc, pv) ==
    IF endswith_RBV(pv) /\ StripRBV(pv) \in DOMAIN doc THEN doc[StripRBV(pv)]
    ELSE IF pv \in DOMAIN doc THEN doc[pv]
    ELSE KeyError

\* The two tries in one table: doc[pv], then doc[pv[:-4]].
lookup_doc_table(doc, pv) ==
    IF pv \in DOMAIN doc THEN doc[pv]
    ELSE IF endswith_RBV(pv) /\ StripRBV(pv) \in DOMAIN doc THEN doc[StripRBV(pv)]
    ELSE KeyError

\* for fn in html_file; r is what the table docs[fn] gave.
RECURSIVE lookup_doc_files(_, _, _)
lookup_doc_file(r, html_file, tables, pv) ==
    IF r # KeyError THEN r ELSE lookup_doc_files(Tail(html_file), tables, pv)

lookup_doc_files(html_file, tables, pv) ==
    IF html_file = <<>> THEN KeyError
    ELSE IF Head(html_file) \notin DOMAIN tables
    THEN lookup_doc_files(Tail(html_file), tables, pv)
    ELSE lookup_doc_file(lookup_doc_table(tables[Head(html_file)], pv),
                         html_file, tables, pv)

\* lookup_doc(cls_, pv): classes is inspect.getmro(cls_), tables is
\* docs.docs; r is what the lists of the first class gave.
RECURSIVE lookup_doc(_, _, _)
lookup_doc_class(r, classes, tables, pv) ==
    IF r # KeyError THEN r ELSE lookup_doc(Tail(classes), tables, pv)

lookup_doc(classes, tables, pv) ==
    IF classes = <<>>
    THEN Str(("No documentation found [PV suffix=" \o Join(pv)) \o "]")
    ELSE IF "_html_docs" \notin DOMAIN Head(classes)
    THEN lookup_doc(Tail(classes), tables, pv)
    ELSE lookup_doc_class(lookup_doc_files(Head(classes)._html_docs, tables, pv),
                          classes, tables, pv)

----------------------------------------------------------------------------
(* ADBase *)

\* name_from_pv(pv): lower case, the trailing colons dropped, every other
\* colon a dot; on the prefixes of the model.
name_from_pv(pv) == CASE pv = "P:" -> "p"

\* ADBase.__init__(self, prefix, **kwargs), then the subclass stores channel.
ADBase__init__(prefix, channel) ==
    [name |-> Str(name_from_pv(prefix)), alias |-> Str("None"),
     _prefix |-> prefix, _ad_signals |-> EmptyDict, _ADBase__sig_dict |-> PyNone,
     channel |-> channel]

\* ADBase.read calls self.report(), and report is a property whose value is
\* a dict: the call raises.
ADBase_read(i, h) == CallAttribute(i, ADBase_report(i, h))

----------------------------------------------------------------------------
(* Inputs *)

BaseNames == {"X", "Y"}

Prefixes == {"P:"}

Channels == {1, 2}

\* The values a caller assigns to a field
Values == {PyInt(5), PyInt(7)}

\* The read_fields argument: absent (None), or a selection of the fields.
ReadFieldsArgs == {PyNone, List(<<"r", "a">>)}

\* The names a caller reads on an instance: the fields and groups its class
\* declares or inherits.
FieldNames(cls) ==
    IF cls = NoClass THEN {}
    ELSE {k \in UNION {DOMAIN ClassDicts[c] : c \in Range(cls.mro)} :
            MroLookup(cls.mro, k).type \in {"Signal", "SignalRW", "ADSignal", "property"}}

\* Every PV the channels of a Base instance can touch in its present context.
PvNames(cls, o) ==
    IF "_templates" \notin DOMAIN cls THEN {}
    ELSE
    UNION {{Format(cls._templates[k], o.dict.base_name),
            Format(cls._templates[k], o.dict.base_name) \o ".RBV"} :
           k \in DOMAIN cls._templates}

\* The PVs that report "not connected" during one call.
Downs(cls, o) == {d \in SUBSET PvNames(cls, o) : Cardinality(d) <= MaxDown}

\* The calls of set: up to one argument more than the signature has.  The
\* n-th positional argument is the value n, and a keyword carries the value
\* its field has in set(1, 2, ...): set(1, 2), set(a=1, b=2) and
\* set(b=2, a=1) are all among the calls.  A name the signature lacks
\* carries one more than the signature has parameters.
ValueOf(sig, name) ==
    IF name \in Range(sig) THEN CHOOSE n \in DOMAIN sig : sig[n] = name
    ELSE Len(sig) + 1

SeqsUpTo(S, len) == UNION {[1..n -> S] : n \in 0..len}

Call(sig, na, names) ==
    [args |-> [n \in 1..na |-> n],
     kwargs |-> [n \in DOMAIN names |-> <<names[n], ValueOf(sig, names[n])>>]]

SetCalls(cls) ==
    LET most == Len(cls._default_sig_for_set) + 1
    IN UNION {{Call(cls._default_sig_for_set, na, names) :
                 names \in {q \in SeqsUpTo(Range(cls.signal_names), most - na) : NoDup(q)}} :
              na \in 0..most}

AllSetCalls == SetCalls(SignalMeta__new__("Stage"))

\* set(1) and set() on a schema with one writable field
CoreSetCalls == {Call(<<"a">>, 1, <<>>), Call(<<"a">>, 0, <<>>)}

\* The templates a class body gives to a descriptor: pieces of text, each a
\* placeholder or free of placeholders.
Templates == SeqsUpTo({BN, CH, ".A", "enable"}, MaxTemplate)

DescriptorKinds == {"Signal", "SignalRW", "ADSignal"}

\* The documentation tables, docs.docs: the files areaDetectorDoc.html and
\* pluginDoc.html, each documenting some of the names below; the
\* description of a name tells the file it stands in.
DocFiles == {"areaDetectorDoc.html", "pluginDoc.html"}

DocNames == {<<"Gain">>, <<"Gain", RBV>>}

DocTable(fn, names) == [pv \in names |-> Str((fn \o ":") \o Join(pv))]

DocTables == {[fn \in DOMAIN t |-> DocTable(fn, t[fn])] : t \in [DocFiles -> SUBSET DocNames]}

\* The _html_docs a class body binds: none, or a list of file names, one of
\* which no table exists for.
HtmlDocs ==
    {PyNone} \cup {List(q) : q \in {f \in SeqsUpTo(DocFiles \cup {"missing.html"}, MaxFiles) :
                                       NoDup(f)}}

\* The chains of classes a lookup walks, most derived first.
Hierarchies == UNION {[1..n -> HtmlDocs] : n \in 1..MaxClasses}

\* The PV suffixes looked up.
LookupNames == DocNames \cup {<<"Gain", RBV, RBV>>, <<"Mode">>}

\* set(1), and calls that name the read-only field: set(1, r=2), set(r=2)
FieldSetCalls == {Call(<<"a">>, 1, <<>>), Call(<<"a">>, 1, <<"r">>), Call(<<"a">>, 0, <<"r">>)}

----------------------------------------------------------------------------
(* Actions *)

Heap == [pvs |-> pvs, objs |-> objs, made |-> made]

Commit(h) == /\ pvs' = h.pvs
             /\ objs' = h.objs
             /\ made' = h.made

\* The (cache, key) pairs for which a call constructed a channel object.
Built(before, after) ==
    {k \in DOMAIN after : Count(before, k[1], k[2]) # after[k]}

\* The end of a call: its effects on the heap are kept, and last records the
\* call together with what it returned or raised.
Complete(call, r) ==
    /\ Commit(r.h)
    /\ last' = [k \in DOMAIN call \cup (DOMAIN r \ {"h"}) \cup {"built"} |->
                    IF k \in DOMAIN call THEN call[k]
                    ELSE IF k = "built" THEN Built(made, r.h.made)
                    ELSE r[k]]

Idle == [pc |-> "idle", inst |-> 0, desc |-> PyNone, key |-> StrKey(""),
         obj |-> PyNone, ret |-> PyNone]

Init == /\ klass = NoClass
        /\ pvs = EmptyDict
        /\ objs = <<>>
        /\ made = EmptyDict
        /\ threads = [t \in 1..MaxThreads |-> Idle]
        /\ last = [op |-> "start"]

\* The class statement: class Dev(SettableBase), class Detector(ADBase)
DefineClass(c) ==
    /\ klass = NoClass
    /\ klass' = IF HasSignalMeta(c) THEN SignalMeta__new__(c) ELSE PlainClass(c)
    /\ pvs' = EmptyDict
    /\ last' = [op |-> "class", name |-> c]
    /\ UNCHANGED <<objs, made, threads>>

\* A construction that makes every registered field a parameter of set.
NewInstance_Registering(base_name, read_fields) ==
    /\ klass # NoClass
    /\ HasSignalMeta(klass.name)
    /\ Len(objs) < MaxInst
    /\ objs' = Append(objs, [class |-> klass.name,
                             dict |-> Base__init__(klass, base_name, read_fields),
                             args |-> [base_name |-> base_name,
                                       read_fields |-> read_fields]])
    /\ last' = [op |-> "__init__", inst |-> Len(objs) + 1]
    /\ klass' = [klass EXCEPT !._default_sig_for_set = klass.signal_names]
    /\ UNCHANGED <<pvs, made, threads>>

\* Signal(pv_template), SignalRW(pv_template), ADSignal(pv, has_rbv=...)
Declare(kind, template, has_rbv) ==
    /\ last' = [op |-> "declare", kind |-> kind, template |-> template,
                ret |-> IF kind = "ADSignal" THEN ADSignal__init__(template, has_rbv)
                        ELSE Signal__init__(kind, template)]
    /\ UNCHANGED <<klass, pvs, objs, made, threads>>

\* lookup_doc(cls_, pv) with the tables docs.docs
LookupDoc(own, tables, pv) ==
    /\ last.op = "start"
    /\ last' = [op |-> "lookup_doc", own |-> own, tables |-> tables, pv |-> pv,
                ret |-> lookup_doc(getmro(own), tables, pv)]
    /\ UNCHANGED <<klass, pvs, objs, made, threads>>

\* Dev(base_name, read_fields)
NewInstance(base_name, read_fields) ==
    /\ klass # NoClass
    /\ HasSignalMeta(klass.name)
    /\ Len(objs) < MaxInst
    /\ objs' = Append(objs, [class |-> klass.name,
                             dict |-> Base__init__(klass, base_name, read_fields),
                             args |-> [base_name |-> base_name,
                                       read_fields |-> read_fields]])
    /\ last' = [op |-> "__init__", inst |-> Len(objs) + 1]
    /\ UNCHANGED <<klass, pvs, made, threads>>

\* Detector(prefix, channel)
NewDetector(prefix, channel) ==
    /\ klass # NoClass
    /\ klass.name = "Detector"
    /\ Len(objs) < MaxInst
    /\ objs' = Append(objs, [class |-> klass.name,
                             dict |-> ADBase__init__(prefix, channel),
                             args |-> [prefix |-> prefix, channel |-> channel]])
    /\ last' = [op |-> "__init__", inst |-> Len(objs) + 1]
    /\ UNCHANGED <<klass, pvs, made, threads>>

\* instance.base_name = base_name
SetBaseName(i, base_name) ==
    /\ i \in DOMAIN objs
    /\ HasSignalMeta(objs[i].class)
    /\ objs[i].dict.base_name # base_name
    /\ objs' = [objs EXCEPT ![i].dict.base_name = base_name]
    /\ last' = [op |-> "setattr", inst |-> i, name |-> "base_name"]
    /\ UNCHANGED <<klass, pvs, made, threads>>

\* instance.channel = channel
SetChannel(i, channel) ==
    /\ i \in DOMAIN objs
    /\ objs[i].class = "Detector"
    /\ objs[i].dict.channel # channel
    /\ objs' = [objs EXCEPT ![i].dict.channel = channel]
    /\ last' = [op |-> "setattr", inst |-> i, name |-> "channel"]
    /\ UNCHANGED <<klass, pvs, made, threads>>

\* instance.name, or Class.name when i = 0
GetField(i, name) ==
    /\ klass # NoClass
    /\ i \in 0..Len(objs)
    /\ name \in FieldNames(klass)
    /\ Complete([op |-> "getattr", inst |-> i, name |-> name],
                getattr(klass, i, name, Heap))
    /\ UNCHANGED <<klass, threads>>

\* instance.name = value
SetField(i, name, value) ==
    /\ i \in DOMAIN objs
    /\ name \in FieldNames(klass)
    /\ Complete([op |-> "setattr", inst |-> i, name |-> name, value |-> value],
                setattr(klass, i, name, value, Heap))
    /\ UNCHANGED <<klass, threads>>

\* instance.read()
Read(i, down) ==
    /\ i \in DOMAIN objs
    /\ HasSignalMeta(objs[i].class)
    /\ down \subseteq PvNames(klass, objs[i])
    /\ Cardinality(down) <= MaxDown
    /\ Complete([op |-> "read", inst |-> i, down |-> down],
                Base_read(klass, i, Heap, down))
    /\ UNCHANGED <<klass, threads>>

\* instance.describe()
Describe(i) ==
    /\ i \in DOMAIN objs
    /\ HasSignalMeta(objs[i].class)
    /\ Complete([op |-> "describe", inst |-> i], Base_describe(klass, i, Heap))
    /\ UNCHANGED <<klass, threads>>

\* instance.set(*args, **kwargs)
Set(i, call, down) ==
    /\ i \in DOMAIN objs
    /\ HasSignalMeta(objs[i].class)
    /\ down \subseteq PvNames(klass, objs[i])
    /\ Cardinality(down) <= MaxDown
    /\ Complete([op |-> "set", inst |-> i, args |-> call.args, kwargs |-> call.kwargs,
                 down |-> down],
                SettableBase_set(klass, i, Heap, call.args, call.kwargs, down))
    /\ UNCHANGED <<klass, threads>>

\* instance.stop()
Stop(i) ==
    /\ i \in DOMAIN objs
    /\ HasSignalMeta(objs[i].class)
    /\ Complete([op |-> "stop", inst |-> i],
                CallAttribute(i, getattr(klass, i, "stop", Heap)))
    /\ UNCHANGED <<klass, threads>>

\* instance.trigger()
Trigger(i) ==
    /\ i \in DOMAIN objs
    /\ HasSignalMeta(objs[i].class)
    /\ Complete([op |-> "trigger", inst |-> i],
                CallAttribute(i, getattr(klass, i, "trigger", Heap)))
    /\ UNCHANGED <<klass, threads>>

\* detector.read()
ADRead(i) ==
    /\ i \in DOMAIN objs
    /\ objs[i].class = "Detector"
    /\ Complete([op |-> "read", inst |-> i], ADBase_read(i, Heap))
    /\ UNCHANGED <<klass, threads>>

----------------------------------------------------------------------------
(* Signal.__get__ and ADSignal.check_exists, one step at a time, as a thread *)
(* runs them: the code takes no lock.                                       *)

IsLazy(v) == v.type \in {"Signal", "SignalRW", "ADSignal"}

\* The cache a descriptor works on: the class-level _pvs, or _ad_signals.
CacheOf(i) == IF HasSignalMeta(objs[i].class) THEN pvs ELSE objs[i].dict._ad_signals

OwnerOf(i) == IF HasSignalMeta(objs[i].class) THEN 0 ELSE i

\* The cache key a descriptor computes for an instance with dictionary d.
ResolvedKey(desc, d) ==
    IF IsSignal(desc) THEN StrKey(Format(desc.pv_template, d.base_name))
    ELSE StrKey(ADFormat(desc.pv, d))

\* pv_name = self.pv_template.format(...) / pv = self.pv.format(self=obj)
T_Begin(t, i, name) ==
    /\ threads[t].pc = "idle"
    /\ i \in DOMAIN objs
    /\ name \in FieldNames(klass)
    /\ LET desc == MroLookup(klass.mro, name)
       IN /\ IsLazy(desc)
          /\ threads' = [threads EXCEPT ![t] =
                [pc |-> "lookup", inst |-> i, desc |-> desc,
                 key |-> ResolvedKey(desc, objs[i].dict),
                 obj |-> PyNone, ret |-> PyNone]]
    /\ UNCHANGED <<klass, pvs, objs, made, last>>

\* if pv_name not in instance._pvs / try: return obj._ad_signals[pv]
T_Lookup(t) ==
    /\ threads[t].pc = "lookup"
    /\ LET th == threads[t]
           cache == CacheOf(th.inst)
       IN threads' = [threads EXCEPT ![t] =
             IF th.key \notin DOMAIN cache THEN [th EXCEPT !.pc = "construct"]
             ELSE IF IsSignal(th.desc) THEN [th EXCEPT !.pc = "return"]
             ELSE [th EXCEPT !.pc = "done", !.ret = cache[th.key]]]
    /\ UNCHANGED <<klass, pvs, objs, made, last>>

\* self._class(pv_name, ...) / oesig(read_, write_pv=write, ...)
T_Construct(t) ==
    /\ threads[t].pc = "construct"
    /\ LET th == threads[t]
           owner == OwnerOf(th.inst)
           n == Count(made, owner, th.key) + 1
           oid == Oid(owner, th.key, n)
       IN /\ made' = Put(made, <<owner, th.key>>, n)
          /\ threads' = [threads EXCEPT ![t] =
                [th EXCEPT !.pc = "store",
                           !.obj = IF IsSignal(th.desc)
                                   THEN Signal_class(th.desc, th.key[2], oid)
                                   ELSE ADSignal_construct(th.desc, objs[th.inst].dict,
                                                           th.key[2], oid)]]
    /\ UNCHANGED <<klass, pvs, objs, last>>

\* instance._pvs[pv_name] = ... / obj._ad_signals[pv] = signal
T_Store(t) ==
    /\ threads[t].pc = "store"
    /\ LET th == threads[t]
       IN /\ IF IsSignal(th.desc)
             THEN /\ pvs' = Put(pvs, th.key, th.obj)
                  /\ objs' = objs
             ELSE /\ objs' = [objs EXCEPT ![th.inst].dict._ad_signals = Put(@, th.key, th.obj)]
                  /\ pvs' = pvs
          /\ threads' = [threads EXCEPT ![t] = [th EXCEPT !.pc = "return"]]
    /\ UNCHANGED <<klass, made, last>>

\* return instance._pvs[pv_name] / return obj._ad_signals[pv]
T_Return(t) ==
    /\ threads[t].pc = "return"
    /\ LET th == threads[t]
       IN threads' = [threads EXCEPT ![t] =
             [th EXCEPT !.pc = "done", !.ret = CacheOf(th.inst)[th.key]]]
    /\ UNCHANGED <<klass, pvs, objs, made, last>>

----------------------------------------------------------------------------
(* Specifications *)

Next ==
    \/ \E c \in {"Dev", "Detector"} : DefineClass(c)
    \/ \E b \in BaseNames : NewInstance(b, PyNone)
    \/ \E p \in Prefixes, ch \in Channels : NewDetector(p, ch)
    \/ \E i \in DOMAIN objs, b \in BaseNames : SetBaseName(i, b)
    \/ \E i \in DOMAIN objs, ch \in Channels : SetChannel(i, ch)
    \/ \E i \in 0..Len(objs), name \in FieldNames(klass) : GetField(i, name)
    \/ \E i \in DOMAIN objs : \E down \in Downs(klass, objs[i]) : Read(i, down)
    \/ \E i \in DOMAIN objs : Describe(i)
    \/ \E i \in DOMAIN objs : \E call \in CoreSetCalls :
          \E down \in Downs(klass, objs[i]) : Set(i, call, down)
    \/ \E i \in DOMAIN objs : ADRead(i)

Spec == Init /\ [][Next]_vars

\* One Dev("X") and every call of set.
NextSet ==
    \/ DefineClass("Stage")
    \/ objs = <<>> /\ NewInstance("X", PyNone)
    \/ \E name \in FieldNames(klass) : GetField(1, name)
    \/ \E i \in DOMAIN objs : \E call \in AllSetCalls :
          \E down \in Downs(klass, objs[i]) : Set(i, call, down)

SpecSet == Init /\ [][NextSet]_vars

\* One Dev, constructed with or without a selection of fields to read.
NextRead ==
    \/ DefineClass("Stage")
    \/ objs = <<>> /\ \E b \in BaseNames, rf \in ReadFieldsArgs : NewInstance(b, rf)
    \/ \E i \in DOMAIN objs, b \in BaseNames : SetBaseName(i, b)
    \/ \E i \in DOMAIN objs, name \in FieldNames(klass) : GetField(i, name)
    \/ \E i \in DOMAIN objs : \E down \in Downs(klass, objs[i]) : Read(i, down)
    \/ \E i \in DOMAIN objs : Describe(i)

SpecRead == Init /\ [][NextRead]_vars

\* One instance, and threads that access its fields.
NextThreads ==
    \/ \E c \in {"Dev", "Detector"} : DefineClass(c)
    \/ objs = <<>> /\ NewInstance("X", PyNone)
    \/ objs = <<>> /\ NewDetector("P:", 1)
    \/ \E t \in DOMAIN threads, i \in DOMAIN objs, name \in FieldNames(klass) :
          T_Begin(t, i, name)
    \/ \E t \in DOMAIN threads : T_Lookup(t)
    \/ \E t \in DOMAIN threads : T_Construct(t)
    \/ \E t \in DOMAIN threads : T_Store(t)
    \/ \E t \in DOMAIN threads : T_Return(t)

SpecThreads == Init /\ [][NextThreads]_vars

\* One instance of Dev or of Twin: its fields are read and assigned.
NextFields ==
    \/ \E c \in {"Dev", "Twin"} : DefineClass(c)
    \/ objs = <<>> /\ \E b \in BaseNames : NewInstance(b, PyNone)
    \/ \E i \in DOMAIN objs, name \in FieldNames(klass) : GetField(i, name)
    \/ \E i \in DOMAIN objs, name \in FieldNames(klass), v \in Values : SetField(i, name, v)
    \/ \E i \in DOMAIN objs : \E call \in FieldSetCalls :
          \E down \in Downs(klass, objs[i]) : Set(i, call, down)

SpecFields == Init /\ [][NextFields]_vars

\* One Detector: its channel changes between reads and assignments.
NextDetector ==
    \/ DefineClass("Detector")
    \/ objs = <<>> /\ \E p \in Prefixes, ch \in Channels : NewDetector(p, ch)
    \/ \E i \in DOMAIN objs, ch \in Channels : SetChannel(i, ch)
    \/ \E i \in DOMAIN objs, name \in FieldNames(klass) : GetField(i, name)
    \/ \E i \in DOMAIN objs, name \in FieldNames(klass), v \in Values : SetField(i, name, v)

SpecDetector == Init /\ [][NextDetector]_vars

\* One Dev or one Motor, and every operation of Base and SettableBase.
NextHooks ==
    \/ \E c \in {"Dev", "Motor"} : DefineClass(c)
    \/ objs = <<>> /\ \E b \in BaseNames : NewInstance(b, PyNone)
    \/ \E i \in DOMAIN objs, name \in FieldNames(klass) : GetField(i, name)
    \/ \E i \in DOMAIN objs : \E down \in Downs(klass, objs[i]) : Read(i, down)
    \/ \E i \in DOMAIN objs : Describe(i)
    \/ \E i \in DOMAIN objs : \E call \in CoreSetCalls :
          \E down \in Downs(klass, objs[i]) :
             "SettableBase" \in Range(klass.mro) /\ Set(i, call, down)
    \/ \E i \in DOMAIN objs : Stop(i)
    \/ \E i \in DOMAIN objs : Trigger(i)

SpecHooks == Init /\ [][NextHooks]_vars

\* One instance of Dev, or of SubDev, which inherits the fields of Dev.
NextInherit ==
    \/ \E c \in {"Dev", "SubDev"} : DefineClass(c)
    \/ objs = <<>> /\ \E b \in BaseNames : NewInstance(b, PyNone)
    \/ \E i \in DOMAIN objs, name \in FieldNames(klass) : GetField(i, name)
    \/ \E i \in DOMAIN objs : \E down \in Downs(klass, objs[i]) : Read(i, down)
    \/ \E i \in DOMAIN objs : Describe(i)
    \/ \E i \in DOMAIN objs : \E call \in CoreSetCalls :
          \E down \in Downs(klass, objs[i]) : Set(i, call, down)

SpecInherit == Init /\ [][NextInherit]_vars

\* The descriptors a class body can construct.
NextDeclare ==
    \E kind \in DescriptorKinds, template \in Templates, has_rbv \in BOOLEAN :
        Declare(kind, template, has_rbv)

SpecDeclare == Init /\ [][NextDeclare]_vars

\* One documentation lookup, on any of the inputs.
NextDocs ==
    \E own \in Hierarchies, tables \in DocTables, pv \in LookupNames :
        LookupDoc(own, tables, pv)

SpecDocs == Init /\ [][NextDocs]_vars

----------------------------------------------------------------------------
(* Properties of the channel cache *)

\* The cache with the given owner in a heap: 0 is the class-level _pvs, i
\* the _ad_signals of instance i.
CacheIn(h, owner) == IF owner = 0 THEN h.pvs ELSE h.objs[owner].dict._ad_signals

\* Every entry of cache c is in cache d, with the same object.
Kept(c, d) == \A k \in DOMAIN c : k \in DOMAIN d /\ d[k] = c[k]

Accesses == {"getattr", "read", "describe", "set"}

\* The last call was instance.name, name a field with a descriptor.
FieldAccess ==
    /\ last.op = "getattr"
    /\ last.inst # 0
    /\ IsLazy(MroLookup(klass.mro, last.name))

\* C1: while the context of an instance is unchanged, every access of a
\* field returns the channel object its first access created and cached:
\* no identifier ever has a second object constructed for it, and an access
\* returns the first object made for the identifier the field resolves to,
\* which is the one in the cache, whatever was accessed in between.
C1_CachedIdentity ==
    /\ \A k \in DOMAIN made : made[k] = 1
    /\ (last.op = "getattr" /\ last.inst # 0 /\ "oid" \in DOMAIN last.ret) =>
          /\ last.ret.oid[1] = OwnerOf(last.inst)
          /\ last.ret.oid[3] = 1
          /\ last.ret.oid[2] \in DOMAIN CacheOf(last.inst)
          /\ CacheOf(last.inst)[last.ret.oid[2]] = last.ret
    /\ FieldAccess =>
          /\ "oid" \in DOMAIN last.ret
          /\ last.ret.oid[2] =
                ResolvedKey(MroLookup(klass.mro, last.name), objs[last.inst].dict)

\* A field is accessed again, other identifiers being in the cache by then.
C1_Witness ==
    /\ FieldAccess
    /\ last.built = {}
    /\ Cardinality(DOMAIN CacheOf(last.inst)) >= 2

\* C2: when threads perform the first access of a field of one instance
\* concurrently, at most one channel object is constructed for the resolved
\* identifier and every thread receives that one object.
C2_OneObjectUnderConcurrency ==
    /\ \A k \in DOMAIN made : made[k] <= 1
    /\ \A t, u \in DOMAIN threads :
          (/\ threads[t].pc = "done"
           /\ threads[u].pc = "done"
           /\ threads[t].inst = threads[u].inst
           /\ threads[t].key = threads[u].key) => threads[t].ret = threads[u].ret

\* C3: an instance owns its cache exclusively and starts with it empty: the
\* cache of an instance just constructed has no entry, and no object is in
\* the caches of two instances.
C3_CacheOwnedAndEmptyAtConstruction ==
    /\ last.op = "__init__" => DOMAIN CacheOf(last.inst) = {}
    /\ \A i, j \in DOMAIN objs :
          i # j => Range(CacheOf(i)) \cap Range(CacheOf(j)) = {}

\* C4: a cache grows monotonically and is reference-stable: no step removes
\* an entry, and no step replaces the object stored under a key.
C4_CacheMonotonic ==
    [][/\ Kept(pvs, pvs')
       /\ \A i \in DOMAIN objs :
             "_ad_signals" \in DOMAIN objs[i].dict =>
                Kept(objs[i].dict._ad_signals, objs'[i].dict._ad_signals)]_vars

\* A group has been added to a cache that held its members, and is
\* accessed again.
C4_Witness ==
    /\ last.op = "getattr"
    /\ last.inst # 0
    /\ last.ret.type = "SignalGroup"
    /\ last.built = {}
    /\ Cardinality(DOMAIN CacheOf(last.inst)) >= 4

\* C5: channels are made lazily: a class statement, a constructor and an
\* assignment of context construct no channel object; a channel object is
\* constructed only during an access (direct, or through read, describe,
\* set or a group), for an identifier absent from the cache before and
\* present after; and an access of a field whose identifier is in the cache
\* constructs nothing.
C5_Lazy ==
    [][/\ last'.op \notin Accesses => made' = made
       /\ \A k \in DOMAIN made' :
             Count(made, k[1], k[2]) # made'[k] =>
                /\ last'.op \in Accesses
                /\ k[2] \notin DOMAIN CacheIn(Heap, k[1])
                /\ k[2] \in DOMAIN CacheIn(Heap', k[1])
       /\ (/\ last'.op = "getattr"
           /\ last'.inst # 0
           /\ IsLazy(MroLookup(klass.mro, last'.name))
           /\ ResolvedKey(MroLookup(klass.mro, last'.name), objs[last'.inst].dict)
                 \in DOMAIN CacheOf(last'.inst)) => made' = made]_vars

\* A read of an instance all of whose channels were in the cache already.
C5_Witness ==
    /\ last.op = "read"
    /\ last.ret.type = "dict"
    /\ last.built = {}

----------------------------------------------------------------------------
(* Properties of set, read and describe on the schema Stage *)

\* The schema as declared: the fields in declaration order, the suffix each
\* template puts after the base name, and the writable fields.
Declared == <<"a", "r", "b">>

Suffix == [a |-> ".A", r |-> ".R", b |-> ".B"]

Writable == <<"a", "b">>

\* The resolved channel identifier of a field of instance i.
Identifier(i, name) == objs[i].dict.base_name \o Suffix[name]

\* How many times a call gives a value for the n-th writable field.
Given(call, n) ==
    (IF n <= Len(call.args) THEN 1 ELSE 0)
      + Cardinality({m \in DOMAIN call.kwargs : call.kwargs[m][1] = Writable[n]})

\* The call matches the signature (a, b): nothing missing, nothing extra,
\* nothing given twice, no unknown name.
Matches(call) ==
    /\ Len(call.args) <= Len(Writable)
    /\ \A n \in DOMAIN Writable : Given(call, n) = 1
    /\ \A m \in DOMAIN call.kwargs : call.kwargs[m][1] \in Range(Writable)

\* The writes of set(1, 2): field by field in declaration order.
Dispatch(i) == [n \in DOMAIN Writable |-> PvPut(Identifier(i, Writable[n]), n)]

IsPrefix(p, q) == Len(p) <= Len(q) /\ p = SubSeq(q, 1, Len(p))

\* C6: every call of set that matches the signature, positional or by
\* keyword in any order, issues the same writes (same field, same value, in
\* declaration order) and returns one handle per writable field; a call
\* with a missing argument, an extra argument or an unknown name fails with
\* the binding error (TypeError).
C6_SetSignature ==
    last.op = "set" =>
       IF Matches(last)
       THEN /\ IsPrefix(last.puts, Dispatch(last.inst))
            /\ last.ret.type \in {"list", "DisconnectedError"}
            /\ last.down = {} => last.ret.type = "list"
            /\ last.ret.type = "list" =>
                  /\ last.puts = Dispatch(last.inst)
                  /\ last.ret.items = last.puts
                  /\ Len(last.ret.items) = Len(Writable)
       ELSE last.ret.type = "TypeError"

\* set(b=2, a=1) has succeeded.
C6_Witness ==
    /\ last.op = "set"
    /\ last.args = <<>>
    /\ last.kwargs = << <<"b", 2>>, <<"a", 1>> >>
    /\ last.ret.type = "list"

\* C7: a call of set that does not match the signature raises before any
\* channel is touched: it constructs no channel object, leaves the cache as
\* it was and issues no write, even for the arguments that did match.
C7_BindingErrorTouchesNothing ==
    [][(last'.op = "set" /\ ~Matches(last')) =>
          /\ last'.ret.type = "TypeError"
          /\ last'.puts = <<>>
          /\ last'.built = {}
          /\ pvs' = pvs
          /\ made' = made
          /\ objs' = objs]_vars

\* set(1) has failed for want of b, with no channel in the cache.
C7_Witness ==
    /\ last.op = "set"
    /\ last.args = <<1>>
    /\ last.kwargs = <<>>
    /\ last.ret.type = "TypeError"
    /\ pvs = EmptyDict

\* The channel of a field reports "not connected": a writable field's channel
\* needs its readback PV too.
Disconnected(i, name, down) ==
    \/ Identifier(i, name) \in down
    \/ name \in Range(Writable) /\ (Identifier(i, name) \o ".RBV") \in down

\* The writes of a call that fail: the positions, in declaration order, of
\* the writable fields whose channel is not connected.
FailedWrites(i, down) == {n \in DOMAIN Writable : Disconnected(i, Writable[n], down)}

\* C19: set issues its writes one field at a time in declaration order
\* and neither takes a write back nor tries one again: when the k-th write
\* fails, set fails with the error of that write, the first k-1 writes
\* have been issued and stay issued, no later write is issued and no list
\* of handles is returned.
C19_NoRollback ==
    (last.op = "set" /\ Matches(last) /\ FailedWrites(last.inst, last.down) # {}) =>
       /\ last.ret = Raise("DisconnectedError",
                           Identifier(last.inst, Writable[Least(FailedWrites(last.inst, last.down))])
                              \o " is not connected")
       /\ last.puts = SubSeq(Dispatch(last.inst), 1,
                             Least(FailedWrites(last.inst, last.down)) - 1)

\* set(1, 2) has failed at its second write, after the first was issued.
C19_Witness ==
    /\ last.op = "set"
    /\ last.args = <<1, 2>>
    /\ last.kwargs = <<>>
    /\ Least(FailedWrites(last.inst, last.down) \cup {3}) = 2
    /\ last.ret.type = "DisconnectedError"
    /\ last.puts = <<PvPut("X.A", 1)>>

\* The fields an instance selects: the caller's subset, or all fields.
Selected(i) ==
    IF objs[i].args.read_fields = PyNone THEN Declared
    ELSE objs[i].args.read_fields.items

\* What read(i) must have done under down, given what it returned.
ReadFailsFast(i, down, ret) ==
    LET bad == {name \in Range(Selected(i)) : Disconnected(i, name, down)}
    IN bad # {} =>
          /\ ret.type = "DisconnectedError"
          /\ \E name \in bad : ret.msg = Identifier(i, name) \o " is not connected"

\* C8: read is fail-fast and names the failing channel: when the channel of
\* a selected field is not connected, read raises DisconnectedError with the
\* resolved identifier of such a field in its message, and returns no
\* mapping.
C8_ReadFailsFast ==
    last.op = "read" => ReadFailsFast(last.inst, last.down, last.ret)

\* The same, for the instances constructed without a selection.
ReadFailsFast_Default ==
    (last.op = "read" /\ objs[last.inst].args.read_fields = PyNone) =>
       ReadFailsFast(last.inst, last.down, last.ret)

ReadFailsFast_Default_Witness ==
    /\ last.op = "read"
    /\ objs[last.inst].args.read_fields = PyNone
    /\ last.down = {"Y.R"}
    /\ last.ret.type = "DisconnectedError"

\* The value read through the channel of a field: a writable field's channel
\* reads its readback PV.
Current(i, name) ==
    PvValue(IF name \in Range(Writable) THEN Identifier(i, name) \o ".RBV"
            ELSE Identifier(i, name))

ReadsSelected(i, ret) ==
    /\ ret.type = "dict"
    /\ DOMAIN ret.items = Range(Selected(i))
    /\ \A name \in DOMAIN ret.items : ret.items[name] = Current(i, name)

\* C9: with every channel connected, read returns one entry per selected
\* field, holding the current value of that field's channel; the selected
\* fields are all the fields when the constructor got no selection, and the
\* caller's subset when it got one.
C9_ReadSelected ==
    (last.op = "read" /\ last.down = {}) => ReadsSelected(last.inst, last.ret)

\* The same, for the instances constructed without a selection.
ReadsSelected_Default ==
    (last.op = "read" /\ last.down = {} /\ objs[last.inst].args.read_fields = PyNone)
       => ReadsSelected(last.inst, last.ret)

DescribesSelected(i, ret) ==
    /\ ret.type = "dict"
    /\ DOMAIN ret.items = Range(Selected(i))
    /\ \A name \in DOMAIN ret.items : ret.items[name] = [source |-> Identifier(i, name)]

\* C10: describe returns, for the selected fields and no other, metadata
\* whose source is the identifier the field's template gives in the context
\* of the instance, and never fails for want of a connection.
C10_DescribeSelected ==
    last.op = "describe" => DescribesSelected(last.inst, last.ret)

\* The same, for the instances constructed without a selection.
DescribesSelected_Default ==
    (last.op = "describe" /\ objs[last.inst].args.read_fields = PyNone)
       => DescribesSelected(last.inst, last.ret)

----------------------------------------------------------------------------
(* Properties of writes and of the capability of a field *)

\* The fields of Dev and Twin by their declaration.
ReadOnlyFields == {"r", "v"}

WritableFields == {"a", "w"}

\* C11: a write against a read-only field, by assignment on the instance or
\* by naming the field in set, fails at once with NotWritableError and has
\* no effect: nothing is written, nothing is bound on the instance, and the
\* field keeps returning its channel.
C11_ReadOnlyWriteRefused ==
    /\ (last.op = "setattr" /\ last.name \in ReadOnlyFields) =>
          /\ last.ret.type = "NotWritableError"
          /\ last.assigned = <<>>
    /\ (last.op = "set" /\ KwNames(last.kwargs) \cap ReadOnlyFields # {}) =>
          /\ last.ret.type = "NotWritableError"
          /\ last.puts = <<>>
    /\ \A i \in DOMAIN objs : DOMAIN objs[i].dict \cap ReadOnlyFields = {}
    /\ (last.op = "getattr" /\ last.inst # 0 /\ last.name \in ReadOnlyFields) =>
          IsChannel(last.ret)

\* C12: the capability of the channel a field returns follows the field's
\* declaration: a writable field returns a channel with a write path and a
\* readback companion, a read-only field a channel without one, also when
\* another field of the schema resolves to the same identifier and was
\* read first.
C12_CapabilityFollowsDeclaration ==
    (/\ last.op = "getattr"
     /\ last.inst # 0
     /\ last.name \notin DOMAIN objs[last.inst].dict) =>
       /\ last.name \in WritableFields =>
             /\ last.ret.type = "EpicsSignalLiteRW"
             /\ last.ret.readback_pv = last.ret.pv \o ".RBV"
       /\ last.name \in ReadOnlyFields =>
             /\ last.ret.type = "EpicsSignalLite"
             /\ "readback_pv" \notin DOMAIN last.ret

----------------------------------------------------------------------------
(* Properties of the group of Detector *)

\* The keys under which the cache of detector i holds its member channels.
MemberKeys(i) == <<StrKey("Ch" \o ToStr(objs[i].dict.channel)), StrKey("enable")>>

\* The identifiers the members of the group resolve to: the identifiers of
\* the channels the member fields return.
MemberIds(i) ==
    [n \in DOMAIN MemberKeys(i) |-> objs[i].dict._ad_signals[MemberKeys(i)[n]].read_pv]

IsGroupKey(key) == key[1] = "tuple"

\* The group a read or an assignment of the field group has worked on.
GroupAccess == last.op \in {"getattr", "setattr"} /\ last.inst # 0 /\ last.name = "group"

GroupOf == IF last.op = "getattr" THEN last.ret ELSE last.assigned[1].target

\* C13: reads and assignments of a group work on one cached group object
\* for as long as its member identifiers resolve identically: the group is
\* constructed once per tuple of member identifiers and holds the member
\* channels of that tuple, so a tuple that differs in any member has a
\* distinct group object, and every group constructed earlier stays cached.
C13_GroupKeyStable ==
    /\ GroupAccess =>
          /\ GroupOf.type = "SignalGroup"
          /\ TupleKey(MemberIds(last.inst)) \in DOMAIN objs[last.inst].dict._ad_signals
          /\ GroupOf = objs[last.inst].dict._ad_signals[TupleKey(MemberIds(last.inst))]
          /\ [n \in DOMAIN GroupOf.signals |-> GroupOf.signals[n].read_pv]
                = MemberIds(last.inst)
    /\ \A k \in DOMAIN made :
          IsGroupKey(k[2]) =>
             /\ made[k] = 1
             /\ k[2] \in DOMAIN objs[k[1]].dict._ad_signals
             /\ objs[k[1]].dict._ad_signals[k[2]].oid = Oid(k[1], k[2], 1)
             /\ k[2] = TupleKey([n \in DOMAIN objs[k[1]].dict._ad_signals[k[2]].signals |->
                                   objs[k[1]].dict._ad_signals[k[2]].signals[n].read_pv])

\* An assignment to the group has found its group cached, and the cache
\* holds the group of another tuple of member identifiers as well.
C13_Witness ==
    /\ GroupAccess
    /\ last.op = "setattr"
    /\ last.built = {}
    /\ Cardinality({key \in DOMAIN objs[last.inst].dict._ad_signals : IsGroupKey(key)}) = 2

----------------------------------------------------------------------------
(* Properties of stop and trigger, and of the registry *)

\* C14: stop() and trigger() exist on every instance, also of a schema
\* class that declares fields; called without arguments they return
\* normally and do nothing: no channel is constructed, nothing is read or
\* written, the cache is as it was.
C14_HooksAreNoOps ==
    last.op \in {"stop", "trigger"} =>
       /\ last.ret = PyNone
       /\ last.built = {}

\* The fields an instance of the class gives access to, and the writable
\* ones among them: a, r, and for SubDev also c.
Accessible(c) == IF c = "SubDev" THEN {"a", "r", "c"} ELSE {"a", "r"}

AccessibleWritable(c) == {"a"}

\* C17: the class statement registers every attribute whose value is a
\* descriptor, for fields the class declares and for fields it inherits, so
\* that the default selection of read and describe and the signature of
\* set cover every field the instance gives access to.
C17_RegistryCoversInherited ==
    /\ (klass # NoClass /\ klass.name \in {"Dev", "SubDev"}) =>
          /\ Range(klass.signal_names) = Accessible(klass.name)
          /\ DOMAIN klass.signals = Accessible(klass.name)
          /\ DOMAIN klass._templates = Accessible(klass.name)
          /\ Range(klass._default_sig_for_set) = AccessibleWritable(klass.name)
    /\ (last.op \in {"read", "describe"} /\ last.ret.type = "dict") =>
          DOMAIN last.ret.items = Accessible(klass.name)
    /\ (last.op = "set" /\ last.args = <<1>> /\ last.kwargs = <<>> /\ last.down = {}) =>
          last.ret.type = "list"

\* C18: the registry of a class (field mapping, templates, field order,
\* writable fields and with them the signature of set) is what the class
\* statement built, and no construction of an instance, field access,
\* read, describe, set, stop or trigger changes it.
C18_RegistryImmutable == [][klass # NoClass => klass' = klass]_vars

\* trigger() has returned on an instance whose class has channels cached,
\* and the registry is the one the class statement built.
C18_Witness ==
    /\ last.op = "trigger"
    /\ pvs # EmptyDict
    /\ objs # <<>>
    /\ klass = SignalMeta__new__(klass.name)

----------------------------------------------------------------------------
(* Properties of declarations *)

\* The template names the context: the base name for Signal and SignalRW,
\* an attribute of the instance for ADSignal.
HasPlaceholder(kind, template) ==
    IF kind = "ADSignal" THEN CH \in Range(template) ELSE BN \in Range(template)

\* C15: the construction of a descriptor whose template lacks the
\* placeholder fails with a configuration error (ValueError) at declaration
\* time, for every template and every kind of descriptor; no descriptor is
\* created.
C15_TemplateValidated ==
    (last.op = "declare" /\ ~HasPlaceholder(last.kind, last.template)) =>
       last.ret.type = "ValueError"

----------------------------------------------------------------------------
(* Properties of the documentation lookup *)

\* The name a lookup tries in a table: the field name itself (try 1), the
\* name without its readback suffix (try 2, for names that end in it).
Tried(pv, try) == IF try = 1 THEN pv ELSE SubSeq(pv, 1, Len(pv) - 1)

\* The places a description of pv stands in: class c of the walk (most
\* derived first), the f-th table of the class's own list, and the try.
Hits(own, tables, pv) ==
    {x \in (DOMAIN own) \X (1..MaxFiles) \X {1, 2} :
        /\ own[x[1]] # PyNone
        /\ x[2] \in DOMAIN own[x[1]].items
        /\ own[x[1]].items[x[2]] \in DOMAIN tables
        /\ x[3] = 2 => (pv # <<>> /\ pv[Len(pv)] = "_RBV")
        /\ Tried(pv, x[3]) \in DOMAIN tables[own[x[1]].items[x[2]]]}

Before(x, y) ==
    \/ x[1] < y[1]
    \/ x[1] = y[1] /\ x[2] < y[2]
    \/ x[1] = y[1] /\ x[2] = y[2] /\ x[3] <= y[3]

\* The description that stands at a place.
tables_at(own, tables, pv, x) == tables[own[x[1]].items[x[2]]][Tried(pv, x[3])]

FirstHit(hits) == CHOOSE x \in hits : \A y \in hits : Before(x, y)

\* C16: the lookup walks the ancestors from the most derived to the most
\* basic, the tables of each ancestor in order, and in each table the exact
\* name before the name without its readback suffix; it returns the first
\* description in that order, and the sentinel string that holds the field
\* name exactly when no table holds either form.  It raises nothing.
C16_LookupWalk ==
    last.op = "lookup_doc" =>
       LET hits == Hits(last.own, last.tables, last.pv)
       IN IF hits = {}
          THEN last.ret = Str(("No documentation found [PV suffix=" \o Join(last.pv)) \o "]")
          ELSE last.ret = tables_at(last.own, last.tables, last.pv, FirstHit(hits))

\* The description a class later in the walk holds for the name without
\* its readback suffix has been returned: the lists of the classes before
\* it name a table, and no table before holds either form.
C16_Witness ==
    /\ last.op = "lookup_doc"
    /\ Len(last.own) = 2
    /\ last.own[1] # PyNone
    /\ \E n \in DOMAIN last.own[1].items : last.own[1].items[n] \in DOMAIN last.tables
    /\ Hits(last.own, last.tables, last.pv) # {}
    /\ FirstHit(Hits(last.own, last.tables, last.pv))[1] = 2
    /\ FirstHit(Hits(last.own, last.tables, last.pv))[3] = 2

----------------------------------------------------------------------------
(* Properties of the cache key *)

\* The identifier a field of instance i resolves to in the present context
\* of the instance: base name and suffix for the fields of Dev, prefix,
\* channel index and readback suffix for the fields of Detector.
Resolved(i, name) ==
    CASE name = "signal" -> (objs[i].dict._prefix \o "Ch") \o ToStr(objs[i].dict.channel)
      [] name = "enable" -> objs[i].dict._prefix \o "enable_RBV"
      [] OTHER -> Identifier(i, name)

\* The identifier of a channel object.
IdentifierOf(channel) ==
    IF channel.type = "EpicsSignal" THEN channel.read_pv ELSE channel.pv

\* C20: the cache is keyed by the resolved identifier, not by the field:
\* after a change of the instance's context (its base name, or a value
\* such as the channel index that the template substitutes) an access
\* returns the channel of the identifier the field resolves to now,
\* constructed once for that identifier; the channels constructed under
\* the earlier context stay cached, and are returned again when the
\* context is changed back.
C20_KeyedByIdentifier ==
    /\ (last.op = "getattr" /\ last.inst # 0
           /\ last.name \in {"a", "r", "signal", "enable"}) =>
          /\ IdentifierOf(last.ret) = Resolved(last.inst, last.name)
          /\ last.ret.oid[3] = 1
    /\ \A k \in DOMAIN made :
          /\ made[k] = 1
          /\ k[2] \in DOMAIN CacheIn(Heap, k[1])
          /\ CacheIn(Heap, k[1])[k[2]].oid = Oid(k[1], k[2], 1)

\* A detector that holds the channels of both channel indices is back at
\* the index it was constructed with, and the access has constructed
\* nothing; a Dev likewise with its base names.
C20_Witness ==
    /\ last.op = "getattr"
    /\ last.inst # 0
    /\ last.built = {}
    /\ \/ /\ last.name = "signal"
          /\ objs[last.inst].dict.channel = objs[last.inst].args.channel
          /\ {StrKey("Ch1"), StrKey("Ch2")} \subseteq DOMAIN objs[last.inst].dict._ad_signals
       \/ /\ last.name = "a"
          /\ Len(objs) = 1
          /\ objs[1].dict.base_name = objs[1].args.base_name
          /\ {StrKey("X.A"), StrKey("Y.A")} \subseteq DOMAIN pvs

====
